---- MODULE Spec2Model ----
(***************************************************************************)
(* Model of src/graphql/root.rs (ssb-patchql): the cursor codec, the       *)
(* `threads` search with its OR-composed selectors, privacy clause, cursor *)
(* bound, ordering and limit, the `thread` / `post` lookups, and the       *)
(* mutex that guards the shared database connection.                       *)
(***************************************************************************)
EXTENDS Integers, Sequences, FiniteSets, TLC

VARIABLES
    threads_table,  \* rows of the `threads` relation (db::schema::threads)
    nmsgs,          \* number of messages appended to the log so far
    poisoned,       \* the connection mutex is poisoned (a holder panicked)
    request,        \* arguments of the last request handled
    response,       \* what the last request gave its caller
    pager,          \* a client paging through `threads` with cursors
    codec,          \* a cursor being encoded / decoded
    holder,         \* request that holds the connection mutex, 0 = free
    calls           \* per concurrent request: position and outcome

vars == <<threads_table, nmsgs, poisoned, request, response, pager, codec, holder, calls>>

(***************************************************************************)
(* Bounds of the model.                                                    *)
(***************************************************************************)
MaxCursor == 40      \* cursors -MaxCursor..MaxCursor are round-tripped

(***************************************************************************)
(* Option<T>: None is the empty sequence, Some(v) is <<v>>.                *)
(***************************************************************************)
None == << >>
Some(v) == <<v>>
IsSome(o) == Len(o) = 1
Unwrap(o) == o[1]

(***************************************************************************)
(* base64 (STANDARD alphabet, padded).  A text is a sequence of symbols:   *)
(* 0..63 are the alphabet's letters by index, Pad is '=', and NotB64 is a  *)
(* character outside the alphabet.                                         *)
(***************************************************************************)
Pad == 64
NotB64 == 65

RECURSIVE base64_encode(_)
base64_encode(bytes) ==
    IF Len(bytes) = 0 THEN << >>
    ELSE IF Len(bytes) = 1 THEN
        <<bytes[1] \div 4, (bytes[1] % 4) * 16, Pad, Pad>>
    ELSE IF Len(bytes) = 2 THEN
        <<bytes[1] \div 4,
          (bytes[1] % 4) * 16 + bytes[2] \div 16,
          (bytes[2] % 16) * 4,
          Pad>>
    ELSE
        <<bytes[1] \div 4,
          (bytes[1] % 4) * 16 + bytes[2] \div 16,
          (bytes[2] % 16) * 4 + bytes[3] \div 64,
          bytes[3] % 64>>
        \o base64_encode(SubSeq(bytes, 4, Len(bytes)))

\* The bytes of one group of four symbols; `last` says it is the final group,
\* the only one that may carry padding.  <<-1>> marks an invalid group.
DecodeQuad(q, last) ==
    IF q[1] >= Pad \/ q[2] >= Pad THEN <<-1>>
    ELSE IF q[3] = Pad THEN
        IF last /\ q[4] = Pad THEN <<q[1] * 4 + q[2] \div 16>> ELSE <<-1>>
    ELSE IF q[4] = Pad THEN
        IF last THEN <<q[1] * 4 + q[2] \div 16, (q[2] % 16) * 16 + q[3] \div 4>>
        ELSE <<-1>>
    ELSE
        <<q[1] * 4 + q[2] \div 16,
          (q[2] % 16) * 16 + q[3] \div 4,
          (q[3] % 4) * 64 + q[4]>>

RECURSIVE DecodeQuads(_)
DecodeQuads(text) ==
    IF Len(text) = 0 THEN << >>
    ELSE DecodeQuad(SubSeq(text, 1, 4), Len(text) = 4)
         \o DecodeQuads(SubSeq(text, 5, Len(text)))

\* base64::decode: Ok(bytes) or Err(DecodeError).
base64_decode(text) ==
    IF \E i \in 1..Len(text) : text[i] > Pad THEN
        [ok |-> FALSE, bytes |-> << >>, err |-> "Invalid byte"]
    ELSE IF Len(text) % 4 # 0 THEN
        [ok |-> FALSE, bytes |-> << >>, err |-> "Encoded text cannot have a 6-bit remainder."]
    ELSE LET bytes == DecodeQuads(text)
         IN IF \E i \in 1..Len(bytes) : bytes[i] < 0
            THEN [ok |-> FALSE, bytes |-> << >>, err |-> "Invalid byte"]
            ELSE [ok |-> TRUE, bytes |-> bytes, err |-> ""]

(***************************************************************************)
(* i64 <-> 8 little-endian bytes.  `cursor as u64` keeps the 64 bits of    *)
(* the two's complement value, so byte k of the result is the k-th byte of *)
(* the arithmetic right shift of cursor.                                   *)
(***************************************************************************)
I64Bytes == 8

RECURSIVE LowBytes(_, _)
LowBytes(x, n) ==
    IF n = 0 THEN << >> ELSE <<x % 256>> \o LowBytes(x \div 256, n - 1)

to_le_bytes(cursor) == LowBytes(cursor, I64Bytes)

RECURSIVE SignedAbove(_, _)
SignedAbove(bytes, k) ==
    IF k = I64Bytes
    THEN IF bytes[k] >= 128 THEN bytes[k] - 256 ELSE bytes[k]
    ELSE SignedAbove(bytes, k + 1) * 256 + bytes[k]

\* LittleEndian::read_i64 reads the first eight bytes of the slice.
read_i64(bytes) == SignedAbove(bytes, 1)

encode_cursor(cursor) == base64_encode(to_le_bytes(cursor))

decode_cursor_off_by_one(encoded) ==
    LET d == base64_decode(encoded)
    IN IF d.ok /\ Len(d.bytes) <= I64Bytes THEN
           [ok |-> FALSE, v |-> 0,
            err |-> "Error decoding cursor. Is it a valid base64 encoded i64?"]
       ELSE IF d.ok THEN [ok |-> TRUE, v |-> read_i64(d.bytes), err |-> ""]
       ELSE [ok |-> FALSE, v |-> 0, err |-> d.err]

decode_cursor(encoded) ==
    LET d == base64_decode(encoded)
    IN IF d.ok /\ Len(d.bytes) < I64Bytes THEN
           [ok |-> FALSE, v |-> 0,
            err |-> "Error decoding cursor. Is it a valid base64 encoded i64?"]
       ELSE IF d.ok THEN [ok |-> TRUE, v |-> read_i64(d.bytes), err |-> ""]
       ELSE [ok |-> FALSE, v |-> 0, err |-> d.err]

(***************************************************************************)
(* Cursor values and texts the codec is exercised on.                      *)
(***************************************************************************)
CursorValues ==
    (-MaxCursor..MaxCursor)
    \cup {255, 256, 65535, 65536, 16777216, 2147483647,
          -255, -256, -257, -65536, -2147483647}

\* "AQAAAA==": four bytes only.
ShortText == base64_encode(<<1, 0, 0, 0>>)
\* A text with a character outside the alphabet.
BadText == <<NotB64, 0, 0, 0>>
\* Nine bytes: the ninth is ignored by read_i64.
LongText == base64_encode(<<5, 0, 0, 0, 0, 0, 0, 0, 77>>)
\* A length that is no multiple of four.
OddText == <<1, 2, 3, 4, 5>>

MalformedTexts == {ShortText, BadText, OddText}

CodecIdle == [pc |-> "idle", x |-> 0, text |-> << >>, out |-> [ok |-> FALSE, v |-> 0, err |-> ""]]

CodecEncode ==
    /\ codec.pc = "idle"
    /\ \E x \in CursorValues :
           codec' = [codec EXCEPT !.pc = "encoded", !.x = x, !.text = encode_cursor(x)]
    /\ UNCHANGED <<threads_table, nmsgs, poisoned, request, response, pager, holder, calls>>

CodecDecode ==
    /\ codec.pc = "encoded"
    /\ codec' = [codec EXCEPT !.pc = "decoded", !.out = decode_cursor(codec.text)]
    /\ UNCHANGED <<threads_table, nmsgs, poisoned, request, response, pager, holder, calls>>

CodecDecodeText ==
    /\ codec.pc = "idle"
    /\ \E t \in MalformedTexts \cup {LongText} :
           codec' = [codec EXCEPT !.pc = "parsed", !.text = t, !.out = decode_cursor(t)]
    /\ UNCHANGED <<threads_table, nmsgs, poisoned, request, response, pager, holder, calls>>

CodecReset ==
    /\ codec.pc \in {"decoded", "parsed"}
    /\ codec' = CodecIdle
    /\ UNCHANGED <<threads_table, nmsgs, poisoned, request, response, pager, holder, calls>>

(***************************************************************************)
(* The store.  It is filled by the log's ingest, outside this file; the    *)
(* handlers only read it.  A message n of the log has the key id           *)
(* KeyIdOf(n) and the sequence number FlumeSeqOf(n): sequence numbers are  *)
(* unique and grow in append order, key ids need not.                      *)
(***************************************************************************)
MaxMsgs == 2         \* messages appended to the log

KeyIdOf(n) == 50 - n
FlumeSeqOf(n) == 7 * (n - 1)

\* authors: id is nullable, author is the public key string.
authors_table ==
    { [id |-> Some(1), author |-> "@a"],
      [id |-> Some(2), author |-> "@b"],
      [id |-> Some(3), author |-> "@c"],
      [id |-> None,    author |-> "@n"] }

\* contacts: state 1 is "following".
contacts_table ==
    { [author_id |-> 1, contact_author_id |-> 2, state |-> 1],
      [author_id |-> 1, contact_author_id |-> 3, state |-> 0],
      [author_id |-> 3, contact_author_id |-> 1, state |-> 1] }

\* keys: key string -> key id.  Key 50 is known but its message was never received.
KeyString(k) == <<"%", k>>
keys_table(n) == { [id |-> KeyIdOf(m), key |-> KeyString(KeyIdOf(m))] : m \in 0..n }
messages_table(n) == { [key_id |-> Some(KeyIdOf(m))] : m \in 1..n }

\* One row of `threads` per message and reply to it (one row with a NULL
\* reply_author_id when nobody replied).
ThreadRow(n, author, decrypted, root, ctype, reply) ==
    [key_id |-> KeyIdOf(n), flume_seq |-> Some(FlumeSeqOf(n)),
     author_id |-> Some(author), reply_author_id |-> reply,
     root_key_id |-> root, content_type |-> ctype, is_decrypted |-> decrypted]

RootAuthors == {1, 2}

\* The rows the n-th message adds, for every kind of message modelled: a
\* root post nobody replied to, a root post with replies by authors 1 and 3,
\* a reply to another message, and a root message that is no post.
NewRows(n) ==
    { {ThreadRow(n, 1, FALSE, None, "post", None)},
      {ThreadRow(n, 2, TRUE, None, "post", None)},
      {ThreadRow(n, 2, FALSE, None, "post", Some(1)),
       ThreadRow(n, 2, FALSE, None, "post", Some(3))},
      {ThreadRow(n, 1, TRUE, None, "post", Some(1)),
       ThreadRow(n, 1, TRUE, None, "post", Some(3))},
      {ThreadRow(n, 1, FALSE, Some(KeyIdOf(0)), "post", None)},
      {ThreadRow(n, 1, FALSE, None, "about", None)} }

(***************************************************************************)
(* The boxed query: its WHERE clause is a tree grown by or_filter/filter.  *)
(* SQL's NULL is never TRUE in a WHERE clause, and the clauses built here  *)
(* use no NOT, so a comparison with NULL is evaluated to FALSE.            *)
(***************************************************************************)
NoWhere == [op |-> "none"]

filter(w, p) == IF w.op = "none" THEN p ELSE [op |-> "and", l |-> w, r |-> p]

or_filter_anded(w, p) == IF w.op = "none" THEN p ELSE [op |-> "and", l |-> w, r |-> p]

or_filter(w, p) == IF w.op = "none" THEN p ELSE [op |-> "or", l |-> w, r |-> p]

eq_any(col, ids) == [op |-> "in", col |-> col, ids |-> ids]
eq(col, v) == [op |-> "eq", col |-> col, v |-> v]
gt(col, v) == [op |-> "gt", col |-> col, v |-> v]
lt(col, v) == [op |-> "lt", col |-> col, v |-> v]
is_null(col) == [op |-> "is_null", col |-> col]

RECURSIVE Holds(_, _)
Holds(w, row) ==
    CASE w.op = "none" -> TRUE
      [] w.op = "and" -> Holds(w.l, row) /\ Holds(w.r, row)
      [] w.op = "or" -> Holds(w.l, row) \/ Holds(w.r, row)
      [] w.op = "in" -> IsSome(row[w.col]) /\ row[w.col] \in w.ids
      [] w.op = "eq" -> row[w.col] = w.v
      [] w.op = "gt" -> IsSome(row[w.col]) /\ Unwrap(row[w.col]) > w.v
      [] w.op = "lt" -> IsSome(row[w.col]) /\ Unwrap(row[w.col]) < w.v
      [] w.op = "is_null" -> ~IsSome(row[w.col])

\* ORDER BY flume_seq DESC: NULLs sort below every number.
SeqBelow(a, b) ==
    IF ~IsSome(a.flume_seq) THEN TRUE
    ELSE IF ~IsSome(b.flume_seq) THEN FALSE
    ELSE Unwrap(a.flume_seq) <= Unwrap(b.flume_seq)

RECURSIVE order_desc(_)
order_desc(rows) ==
    IF rows = {} THEN << >>
    ELSE LET top == CHOOSE r \in rows : \A o \in rows : SeqBelow(o, r)
         IN <<top>> \o order_desc(rows \ {top})

\* SELECT DISTINCT: a later copy of an earlier tuple is dropped.
RECURSIVE distinct(_)
distinct(s) ==
    IF Len(s) = 0 THEN << >>
    ELSE LET front == distinct(SubSeq(s, 1, Len(s) - 1))
             x == s[Len(s)]
         IN IF \E i \in 1..Len(front) : front[i] = x THEN front ELSE Append(front, x)

\* LIMIT n of SQLite: a negative n is no limit at all.
limit(s, n) ==
    IF n < 0 THEN s ELSE SubSeq(s, 1, IF n < Len(s) THEN n ELSE Len(s))

\* select((key_id, flume_seq)) ... order(flume_seq.desc()).limit(n).distinct().load()
load(table, w, n) ==
    LET ordered == order_desc({ r \in table : Holds(w, r) })
        tuples == [i \in 1..Len(ordered) |-> <<ordered[i].key_id, ordered[i].flume_seq>>]
    IN limit(distinct(tuples), n)

(***************************************************************************)
(* What a handler gives its caller: a value (kind "ok"), an error value    *)
(* (kind "err", a FieldError made from the message), or nothing because    *)
(* the handler panicked (kind "panic").                                    *)
(***************************************************************************)
NoPageInfo == [start_cursor |-> None, end_cursor |-> << >>, has_next_page |-> FALSE]
NoResponse == [kind |-> "none", err |-> "", next |-> 0, thread_keys |-> << >>, page_info |-> NoPageInfo]
Err(msg) == [NoResponse EXCEPT !.kind = "err", !.err = msg]
Panicked == [NoResponse EXCEPT !.kind = "panic"]

LockError == "poisoned lock: another task failed inside"
DatabaseError == "database error"
NotFound == "NotFound"
ConflictingCursors == "Before and After can't be set at the same time."
NoResultsFound == "No results found"

\* authors_table.select(authors_id).filter(authors_author.eq_any(authors))
AuthorKeyIds(authors) == { a.id : a \in { r \in authors_table : r.author \in authors } }

\* authors_table.inner_join(contacts_table.on(authors_id.eq(contacts_author_id.nullable())))
\*     .select(contacts_contact_author_id)
\*     .filter(authors_author.eq_any(authors)).filter(contacts_state.eq(1))
FollowedKeyIds(authors) ==
    { Some(j[2].contact_author_id) :
        j \in { p \in authors_table \X contacts_table :
                  /\ p[1].id = Some(p[2].author_id)
                  /\ p[1].author \in authors
                  /\ p[2].state = 1 } }

AnySelector(args) ==
    \/ IsSome(args.roots_authored_by)
    \/ IsSome(args.roots_authored_by_someone_followed_by)
    \/ IsSome(args.has_replies_authored_by_someone_followed_by)
    \/ IsSome(args.has_replies_authored_by)

\* How many of the `if let Some(authors) = ...` blocks run their lookup.
SelectorLookups(args) ==
    Cardinality({ n \in {"roots_authored_by", "roots_authored_by_someone_followed_by",
                         "has_replies_authored_by_someone_followed_by",
                         "has_replies_authored_by"} : IsSome(args[n]) })

\* The four `if let Some(authors) = ...` blocks, in the order of the code.
SelectorClauses(args) ==
    LET w1 == IF IsSome(args.roots_authored_by)
              THEN or_filter(NoWhere,
                       eq_any("author_id", AuthorKeyIds(Unwrap(args.roots_authored_by))))
              ELSE NoWhere
        w2 == IF IsSome(args.roots_authored_by_someone_followed_by)
              THEN or_filter(w1,
                       eq_any("author_id",
                              FollowedKeyIds(Unwrap(args.roots_authored_by_someone_followed_by))))
              ELSE w1
        w3 == IF IsSome(args.has_replies_authored_by_someone_followed_by)
              THEN or_filter(w2,
                       eq_any("reply_author_id",
                              FollowedKeyIds(Unwrap(args.has_replies_authored_by_someone_followed_by))))
              ELSE w2
        w4 == IF IsSome(args.has_replies_authored_by)
              THEN or_filter(w3,
                       eq_any("reply_author_id", AuthorKeyIds(Unwrap(args.has_replies_authored_by))))
              ELSE w3
    IN w4

PrivacyClauseOred(w, privacy) ==
    CASE privacy = "Private" -> or_filter(w, eq("is_decrypted", TRUE))
      [] privacy = "Public" -> or_filter(w, eq("is_decrypted", FALSE))
      [] privacy = "All" -> w

\* match privacy { Private => ..., Public => ..., All => query }
PrivacyClause(w, privacy) ==
    CASE privacy = "Private" -> filter(w, eq("is_decrypted", TRUE))
      [] privacy = "Public" -> filter(w, eq("is_decrypted", FALSE))
      [] privacy = "All" -> w

CursorClauseInclusive(w, before, after) ==
    IF IsSome(before) /\ ~IsSome(after) THEN
        LET d == decode_cursor(Unwrap(before))
        IN IF d.ok THEN [ok |-> TRUE, w |-> filter(w, gt("flume_seq", d.v - 1)), err |-> ""]
           ELSE [ok |-> FALSE, w |-> w, err |-> d.err]
    ELSE IF ~IsSome(before) /\ IsSome(after) THEN
        LET d == decode_cursor(Unwrap(after))
        IN IF d.ok THEN [ok |-> TRUE, w |-> filter(w, lt("flume_seq", d.v + 1)), err |-> ""]
           ELSE [ok |-> FALSE, w |-> w, err |-> d.err]
    ELSE IF ~IsSome(before) /\ ~IsSome(after) THEN
        [ok |-> TRUE, w |-> w, err |-> ""]
    ELSE
        [ok |-> FALSE, w |-> w, err |-> ConflictingCursors]

\* match (&before, &after): the clause, or the error that ends the request.
CursorClause(w, before, after) ==
    IF IsSome(before) /\ ~IsSome(after) THEN
        LET d == decode_cursor(Unwrap(before))
        IN IF d.ok THEN [ok |-> TRUE, w |-> filter(w, gt("flume_seq", d.v)), err |-> ""]
           ELSE [ok |-> FALSE, w |-> w, err |-> d.err]
    ELSE IF ~IsSome(before) /\ IsSome(after) THEN
        LET d == decode_cursor(Unwrap(after))
        IN IF d.ok THEN [ok |-> TRUE, w |-> filter(w, lt("flume_seq", d.v)), err |-> ""]
           ELSE [ok |-> FALSE, w |-> w, err |-> d.err]
    ELSE IF ~IsSome(before) /\ ~IsSome(after) THEN
        [ok |-> TRUE, w |-> w, err |-> ""]
    ELSE
        [ok |-> FALSE, w |-> w, err |-> ConflictingCursors]

\* The rows of the main query.
MainQuery(table, w, next) ==
    load(table,
         filter(filter(w, is_null("root_key_id")), eq("content_type", "post")),
         next)

\* From `let thread_keys` to the end of the handler.
Connection(results, next) ==
    LET first_seq == IF Len(results) = 0 THEN None ELSE results[1][2]
        last_seq == IF Len(results) = 0 THEN None ELSE results[Len(results)][2]
    IN IF ~IsSome(first_seq) \/ ~IsSome(last_seq) THEN Err(NoResultsFound)
       ELSE [kind |-> "ok", err |-> "", next |-> next,
             thread_keys |-> [i \in 1..Len(results) |-> results[i][1]],
             page_info |-> [start_cursor |-> Some(encode_cursor(Unwrap(first_seq))),
                            end_cursor |-> encode_cursor(Unwrap(last_seq)),
                            has_next_page |-> Unwrap(last_seq) # 0]]

\* Query::threads.  `db` is what the database does during the request:
\* "ok", "lookup_fails" (the first selector lookup returns Err) or
\* "main_fails" (the main query's load returns Err).  The result is the
\* response and whether the handler panicked while it held the mutex.
threads(table, lock_poisoned, args, db) ==
    IF lock_poisoned THEN [resp |-> Err(LockError), panic |-> FALSE]
    ELSE IF db = "lookup_fails" /\ AnySelector(args) THEN
        [resp |-> Err(DatabaseError), panic |-> FALSE]
    ELSE LET c == CursorClause(PrivacyClause(SelectorClauses(args), args.privacy),
                               args.before, args.after)
         IN IF ~c.ok THEN [resp |-> Err(c.err), panic |-> FALSE]
            ELSE IF db = "main_fails" THEN [resp |-> Panicked, panic |-> TRUE]
            ELSE [resp |-> Connection(MainQuery(table, c.w, args.next), args.next),
                  panic |-> FALSE]

\* keys_table.inner_join(messages_table.on(messages_key_id.nullable().eq(keys_id_col)))
\*     .select(messages_key_id).filter(keys_key_col.eq(id)).first::<i32>()
KeyLookup(n, id) ==
    { Unwrap(j[2].key_id) :
        j \in { p \in keys_table(n) \X messages_table(n) :
                  p[2].key_id = Some(p[1].id) /\ p[1].key = id } }

\* Query::thread and Query::post: both return the key id found, wrapped.
lookup(n, lock_poisoned, id, db) ==
    IF lock_poisoned THEN Err(LockError)
    ELSE IF db # "ok" THEN Err(DatabaseError)
    ELSE LET found == KeyLookup(n, id)
         IN IF found = {} THEN Err(NotFound)
            ELSE [NoResponse EXCEPT !.kind = "ok", !.thread_keys = <<CHOOSE k \in found : TRUE>>]

(***************************************************************************)
(* Requests.  The GraphQL arguments of `threads` with their defaults, and  *)
(* the families of arguments the handlers are run on.  mentions_authors    *)
(* and mentions_channels are accepted and never read, so they are left out.*)
(***************************************************************************)
DefaultNext == 10

DefaultArgs ==
    [op |-> "threads", id |-> << >>,
     before |-> None, after |-> None, next |-> DefaultNext, privacy |-> "Public",
     roots_authored_by |-> None,
     roots_authored_by_someone_followed_by |-> None,
     has_replies_authored_by_someone_followed_by |-> None,
     has_replies_authored_by |-> None,
     order_by |-> "Received", db |-> "ok"]

NoRequest == [DefaultArgs EXCEPT !.op = "none"]

Privacies == {"Public", "Private", "All"}
PageSizes == {-1, 0, 1, DefaultNext}

\* Cursors of the sequence numbers in the log, one between two of them
\* (LongText decodes to 5), and two malformed ones.
CursorTexts ==
    { encode_cursor(FlumeSeqOf(n)) : n \in 1..MaxMsgs } \cup {LongText, ShortText, BadText}

CursorArgs ==
    {<<None, None>>}
    \cup { <<Some(t), None>> : t \in CursorTexts }
    \cup { <<None, Some(t)>> : t \in CursorTexts }
    \cup { <<Some(t), Some(u)>> : t \in {encode_cursor(FlumeSeqOf(1)), BadText},
                                  u \in {encode_cursor(FlumeSeqOf(MaxMsgs)), ShortText} }

SelectorArgs ==
    { [DefaultArgs EXCEPT !.roots_authored_by = s1,
                          !.roots_authored_by_someone_followed_by = s2,
                          !.has_replies_authored_by_someone_followed_by = s3,
                          !.has_replies_authored_by = s4] :
        s1 \in {None, Some({"@a"}), Some({"@x"}), Some({"@n", "@b"})},
        s2 \in {None, Some({"@a"})},
        s3 \in {None, Some({"@c"})},
        s4 \in {None, Some({"@c"})} }

OneSelectorArgs ==
    {DefaultArgs, [DefaultArgs EXCEPT !.roots_authored_by = Some({"@a"})]}

ThreadsRequests ==
    \* selectors x privacy x page size
    { [a EXCEPT !.privacy = p, !.next = n] :
        a \in SelectorArgs, p \in Privacies, n \in {1, DefaultNext} }
    \* cursors x page size
    \cup { [a EXCEPT !.before = c[1], !.after = c[2], !.next = n, !.privacy = p] :
             a \in OneSelectorArgs, c \in CursorArgs, n \in PageSizes, p \in {"All"} }
    \* the other orderings
    \cup { [DefaultArgs EXCEPT !.order_by = o, !.next = n, !.privacy = "All"] :
             o \in {"Asserted", "Causal"}, n \in PageSizes }
    \* database failures
    \cup { [a EXCEPT !.before = c[1], !.after = c[2], !.db = f, !.privacy = "All"] :
             a \in OneSelectorArgs, f \in {"lookup_fails", "main_fails"},
             c \in {<<None, None>>, <<Some(BadText), None>>,
                    <<Some(encode_cursor(FlumeSeqOf(1))), Some(encode_cursor(FlumeSeqOf(1)))>>} }

LookupRequests(op) ==
    { [DefaultArgs EXCEPT !.op = op, !.id = KeyString(KeyIdOf(m)), !.db = f] :
        m \in 0..MaxMsgs, f \in {"ok", "main_fails"} }

(***************************************************************************)
(* Reference notions the properties are stated with.  They are written     *)
(* from the meaning of the arguments, not from the WHERE tree above.       *)
(***************************************************************************)
\* The handler ran its main query and built its answer from the rows.
ReachedRows(req, resp) ==
    /\ req.op = "threads"
    /\ resp.kind = "ok" \/ (resp.kind = "err" /\ resp.err = NoResultsFound)

KeysOf(resp) == IF resp.kind = "ok" THEN { resp.thread_keys[i] : i \in 1..Len(resp.thread_keys) } ELSE {}

RowsOfKey(table, k) == { r \in table : r.key_id = k }
SeqOfKey(table, k) == Unwrap((CHOOSE r \in RowsOfKey(table, k) : TRUE).flume_seq)

IsRootPost(r) == r.root_key_id = None /\ r.content_type = "post"

PrivacyAdmits(privacy, r) ==
    \/ privacy = "All"
    \/ privacy = "Public" /\ ~r.is_decrypted
    \/ privacy = "Private" /\ r.is_decrypted

InsideCursors(req, r) ==
    /\ IsSome(req.before) => Unwrap(r.flume_seq) > decode_cursor(Unwrap(req.before)).v
    /\ IsSome(req.after) => Unwrap(r.flume_seq) < decode_cursor(Unwrap(req.after)).v

IdOfAuthor(name) == { a.id : a \in { x \in authors_table : x.author = name /\ x.id # None } }
FolloweesOf(name) ==
    { Some(c.contact_author_id) :
        c \in { x \in contacts_table : x.state = 1 /\ Some(x.author_id) \in IdOfAuthor(name) } }

SatisfiesRootsAuthoredBy(req, r) ==
    IsSome(req.roots_authored_by)
    /\ \E n \in Unwrap(req.roots_authored_by) : r.author_id \in IdOfAuthor(n)
SatisfiesRootsFollowed(req, r) ==
    IsSome(req.roots_authored_by_someone_followed_by)
    /\ \E n \in Unwrap(req.roots_authored_by_someone_followed_by) : r.author_id \in FolloweesOf(n)
SatisfiesRepliesFollowed(req, r) ==
    IsSome(req.has_replies_authored_by_someone_followed_by)
    /\ \E n \in Unwrap(req.has_replies_authored_by_someone_followed_by) :
           r.reply_author_id \in FolloweesOf(n)
SatisfiesRepliesAuthoredBy(req, r) ==
    IsSome(req.has_replies_authored_by)
    /\ \E n \in Unwrap(req.has_replies_authored_by) : r.reply_author_id \in IdOfAuthor(n)

SatisfiesSomeSelector(req, r) ==
    \/ SatisfiesRootsAuthoredBy(req, r)
    \/ SatisfiesRootsFollowed(req, r)
    \/ SatisfiesRepliesFollowed(req, r)
    \/ SatisfiesRepliesAuthoredBy(req, r)

\* Root-post rows inside the privacy and cursor bounds.
BoundedRows(table, req) ==
    { r \in table : IsRootPost(r) /\ PrivacyAdmits(req.privacy, r) /\ InsideCursors(req, r) }

\* Threads that the claimed semantics makes eligible for the result.
Eligible(table, req) ==
    { r.key_id : r \in { x \in BoundedRows(table, req) :
                           AnySelector(req) => SatisfiesSomeSelector(req, x) } }

StrictlyDecreasing(table, keys) ==
    \A i, j \in 1..Len(keys) : i < j => SeqOfKey(table, keys[i]) > SeqOfKey(table, keys[j])

\* The answer of the same handler, on the same store, to other arguments.
Answer(req) == threads(threads_table, FALSE, req, req.db).resp

(***************************************************************************)
(* A client that pages through `threads`: a first request without cursors, *)
(* then requests with after = the last page's end_cursor until one finds   *)
(* nothing, or one request with before = the last page's start_cursor.     *)
(* The log grows between its requests.                                     *)
(***************************************************************************)
MaxPagingMsgs == 4   \* messages appended to the log while a client pages

PagerIdle ==
    [pc |-> "idle", args |-> DefaultArgs, snapshot |-> {}, pages |-> << >>,
     fetched_at |-> << >>, start_cursor |-> << >>, end_cursor |-> << >>,
     back |-> << >>, back_stable |-> FALSE]

PagingArgs ==
    { [a EXCEPT !.next = n, !.privacy = p] :
        a \in OneSelectorArgs, n \in {1, 2}, p \in {"Public", "All"} }

\* Root posts without replies, by either author, public or private.
PagingRows(n) ==
    { {ThreadRow(n, a, d, None, "post", None)} : a \in RootAuthors, d \in BOOLEAN }

AppendThread ==
    /\ pager.pc \in {"idle", "paging"}
    /\ nmsgs < MaxPagingMsgs
    /\ \E rows \in PagingRows(nmsgs + 1) : threads_table' = threads_table \cup rows
    /\ nmsgs' = nmsgs + 1
    /\ UNCHANGED <<poisoned, request, response, pager, codec, holder, calls>>

TakePage(pg, resp) ==
    IF resp.kind = "ok"
    THEN [pg EXCEPT !.pc = "paging",
                    !.pages = Append(@, resp.thread_keys),
                    !.fetched_at = Append(@, nmsgs),
                    !.start_cursor = Unwrap(resp.page_info.start_cursor),
                    !.end_cursor = resp.page_info.end_cursor]
    ELSE [pg EXCEPT !.pc = "end"]

PagerFirst ==
    /\ pager.pc = "idle"
    /\ \E args \in PagingArgs :
          pager' = TakePage([pager EXCEPT !.args = args,
                                          !.snapshot = Eligible(threads_table, args)],
                            threads(threads_table, poisoned, args, "ok").resp)
    /\ UNCHANGED <<threads_table, nmsgs, poisoned, request, response, codec, holder, calls>>

PagerNext ==
    /\ pager.pc = "paging"
    /\ pager' = TakePage(pager,
                  threads(threads_table, poisoned,
                          [pager.args EXCEPT !.after = Some(pager.end_cursor)], "ok").resp)
    /\ UNCHANGED <<threads_table, nmsgs, poisoned, request, response, codec, holder, calls>>

PagerBack ==
    /\ pager.pc = "paging"
    /\ Len(pager.pages) >= 2
    /\ LET resp == threads(threads_table, poisoned,
                           [pager.args EXCEPT !.before = Some(pager.start_cursor)], "ok").resp
       IN pager' = [pager EXCEPT !.pc = "back",
                                 !.back = resp.thread_keys,
                                 !.back_stable = (nmsgs = pager.fetched_at[Len(pager.pages) - 1])]
    /\ UNCHANGED <<threads_table, nmsgs, poisoned, request, response, codec, holder, calls>>

NextPaging == AppendThread \/ PagerFirst \/ PagerNext \/ PagerBack

(***************************************************************************)
(* Concurrent requests.  Each handler starts with connection.lock()? and   *)
(* keeps the guard in a local until it returns, fails with `?`, or panics. *)
(* A step is one statement that touches the mutex or the connection.       *)
(* lock() on a poisoned mutex returns Err: `?` turns it into the request's *)
(* error and drops the guard inside it at once.                            *)
(***************************************************************************)
NumRequests == 2     \* handlers running concurrently

Requests == 1..NumRequests

Critical == {"selectors", "main", "return"}

InCritical == { r \in Requests : calls[r].pc \in Critical }

ConcRequests ==
    { DefaultArgs,
      [DefaultArgs EXCEPT !.privacy = "All", !.roots_authored_by = Some({"@a"}),
                          !.has_replies_authored_by = Some({"@c"})],
      [DefaultArgs EXCEPT !.before = Some(BadText)],
      [DefaultArgs EXCEPT !.op = "thread", !.id = KeyString(KeyIdOf(1))],
      [DefaultArgs EXCEPT !.op = "post", !.id = KeyString(KeyIdOf(0))] }

CallIdle == [pc |-> "idle", args |-> NoRequest, lookups |-> 0, waited |-> FALSE, resp |-> NoResponse]

\* The store of this specification: it does not change, so what a main
\* query loads depends on the request's arguments only.
ConcStore ==
    { ThreadRow(1, 1, FALSE, None, "post", None),
      ThreadRow(2, 2, TRUE, None, "post", Some(3)) }

MainQueryAnswer ==
    [a \in ConcRequests |->
        IF a.op = "threads" THEN threads(ConcStore, FALSE, a, "ok").resp
        ELSE lookup(2, FALSE, a.id, "ok")]

InitConc ==
    /\ threads_table = ConcStore
    /\ nmsgs = 2
    /\ poisoned = FALSE
    /\ request = NoRequest
    /\ response = NoResponse
    /\ pager = PagerIdle
    /\ codec = CodecIdle
    /\ holder = 0
    /\ calls = [r \in Requests |-> CallIdle]

\* The transport hands a request to a handler.
Call(r) ==
    /\ calls[r].pc = "idle"
    /\ \E args \in ConcRequests :
          calls' = [calls EXCEPT ![r] = [CallIdle EXCEPT !.pc = "lock", !.args = args,
                                            !.lookups = SelectorLookups(args)]]
    /\ UNCHANGED <<threads_table, nmsgs, poisoned, request, response, pager, codec, holder>>

\* let connection = executor.context().connection.lock()?;
Acquire(r) ==
    /\ calls[r].pc = "lock"
    /\ holder = 0
    /\ IF poisoned
       THEN /\ calls' = [calls EXCEPT ![r].pc = "done", ![r].resp = Err(LockError)]
            /\ UNCHANGED holder
       ELSE /\ calls' = [calls EXCEPT ![r].pc = IF calls[r].args.op = "threads"
                                                THEN "selectors" ELSE "main"]
            /\ holder' = r
    /\ UNCHANGED <<threads_table, nmsgs, poisoned, request, response, pager, codec>>

\* The mutex is taken: the handler blocks inside lock().
Block(r) ==
    /\ calls[r].pc = "lock"
    /\ holder # 0
    /\ ~calls[r].waited
    /\ calls' = [calls EXCEPT ![r].waited = TRUE]
    /\ UNCHANGED <<threads_table, nmsgs, poisoned, request, response, pager, codec, holder>>

\* One selector's lookup: .load(&(*connection))?
SelectorLookup(r) ==
    /\ calls[r].pc = "selectors"
    /\ calls[r].lookups > 0
    /\ \/ /\ calls' = [calls EXCEPT ![r].lookups = @ - 1]
          /\ UNCHANGED holder
       \/ /\ calls' = [calls EXCEPT ![r].pc = "done", ![r].resp = Err(DatabaseError)]
          /\ holder' = 0
    /\ UNCHANGED <<threads_table, nmsgs, poisoned, request, response, pager, codec>>

\* The privacy and cursor matches: no query, but `?` may end the request.
Cursors(r) ==
    /\ calls[r].pc = "selectors"
    /\ calls[r].lookups = 0
    /\ LET a == calls[r].args
           c == CursorClause(PrivacyClause(SelectorClauses(a), a.privacy), a.before, a.after)
       IN IF c.ok
          THEN /\ calls' = [calls EXCEPT ![r].pc = "main"]
               /\ UNCHANGED holder
          ELSE /\ calls' = [calls EXCEPT ![r].pc = "done", ![r].resp = Err(c.err)]
               /\ holder' = 0
    /\ UNCHANGED <<threads_table, nmsgs, poisoned, request, response, pager, codec>>

\* The main query: .load(..).unwrap() in threads, .first(..).map(..)? in thread and post.
RunMainQuery(r) ==
    /\ calls[r].pc = "main"
    /\ \E db \in {"ok", "main_fails"} :
          IF db = "ok" THEN
              /\ calls' = [calls EXCEPT ![r].pc = "return",
                              ![r].resp = MainQueryAnswer[calls[r].args]]
              /\ UNCHANGED <<holder, poisoned>>
          ELSE IF calls[r].args.op = "threads" THEN
              /\ calls' = [calls EXCEPT ![r].pc = "done", ![r].resp = Panicked]
              /\ holder' = 0
              /\ poisoned' = TRUE
          ELSE
              /\ calls' = [calls EXCEPT ![r].pc = "done",
                              ![r].resp = lookup(nmsgs, FALSE, calls[r].args.id, db)]
              /\ holder' = 0
              /\ UNCHANGED poisoned
    /\ UNCHANGED <<threads_table, nmsgs, request, response, pager, codec>>

\* The handler returns; the guard goes out of scope.
Return(r) ==
    /\ calls[r].pc = "return"
    /\ calls' = [calls EXCEPT ![r].pc = "done"]
    /\ holder' = 0
    /\ UNCHANGED <<threads_table, nmsgs, poisoned, request, response, pager, codec>>

Handle(r) ==
    Acquire(r) \/ Block(r) \/ SelectorLookup(r) \/ Cursors(r) \/ RunMainQuery(r) \/ Return(r)

NextConc == \E r \in Requests : Call(r) \/ Handle(r)

(***************************************************************************)
(* Spec: requests handled one at a time (the mutex admits one handler),    *)
(* with the log growing between them.                                      *)
(***************************************************************************)
Init ==
    /\ threads_table = {}
    /\ nmsgs = 0
    /\ poisoned = FALSE
    /\ request = NoRequest
    /\ response = NoResponse
    /\ pager = PagerIdle
    /\ codec = CodecIdle
    /\ holder = 0
    /\ calls = << >>

AppendMessage ==
    /\ request.op = "none"
    /\ nmsgs < MaxMsgs
    /\ \E rows \in NewRows(nmsgs + 1) : threads_table' = threads_table \cup rows
    /\ nmsgs' = nmsgs + 1
    /\ UNCHANGED <<poisoned, request, response, pager, codec, holder, calls>>

Threads ==
    /\ request.op = "none"
    /\ \E args \in ThreadsRequests :
          LET r == threads(threads_table, poisoned, args, args.db)
          IN /\ request' = args
             /\ response' = r.resp
             /\ poisoned' = (poisoned \/ r.panic)
    /\ UNCHANGED <<threads_table, nmsgs, pager, codec, holder, calls>>

Thread ==
    /\ request.op = "none"
    /\ \E args \in LookupRequests("thread") :
          /\ request' = args
          /\ response' = lookup(nmsgs, poisoned, args.id, args.db)
    /\ UNCHANGED <<threads_table, nmsgs, poisoned, pager, codec, holder, calls>>

Post ==
    /\ request.op = "none"
    /\ \E args \in LookupRequests("post") :
          /\ request' = args
          /\ response' = lookup(nmsgs, poisoned, args.id, args.db)
    /\ UNCHANGED <<threads_table, nmsgs, poisoned, pager, codec, holder, calls>>

\* The caller takes the response; the next request can be handled.
Deliver ==
    /\ request.op # "none"
    /\ request' = NoRequest
    /\ response' = NoResponse
    /\ UNCHANGED <<threads_table, nmsgs, poisoned, pager, codec, holder, calls>>

Next == AppendMessage \/ Threads \/ Thread \/ Post \/ Deliver

Spec == Init /\ [][Next]_vars

(***************************************************************************)
(* SpecCodec: the codec applied to cursor values and to malformed texts.   *)
(***************************************************************************)
NextCodec == CodecEncode \/ CodecDecode \/ CodecDecodeText \/ CodecReset

SpecCodec == Init /\ [][NextCodec]_vars

SpecPaging == Init /\ [][NextPaging]_vars

(***************************************************************************)
(* FairSpec: concurrent handlers.  A handler that can take a step          *)
(* eventually takes it: threads are scheduled, a query returns, and a      *)
(* thread blocked in lock() is woken when the mutex is released.           *)
(***************************************************************************)
FairSpec == InitConc /\ [][NextConc]_vars /\ \A r \in Requests : WF_vars(Handle(r))

(***************************************************************************)
(* C1.  A `threads` request with both `before` and `after` always fails    *)
(* with ConflictingCursors and returns no connection.                      *)
(***************************************************************************)
C1_BothCursorsAlwaysConflict ==
    (request.op = "threads" /\ IsSome(request.before) /\ IsSome(request.after))
    => /\ response.kind = "err"
       /\ response.err = ConflictingCursors
       /\ response.thread_keys = << >>

(***************************************************************************)
(* C2.  The present selectors are ORed: the threads returned are eligible  *)
(* ones (inside the bounds and, if a selector is present, satisfying at    *)
(* least one), an eligible thread is left out only by the page limit (the  *)
(* page is full and holds newer threads), and with two selectors whose     *)
(* matches fit in the page the result is the union of their results.       *)
(***************************************************************************)
OnlySelector(req, name) ==
    [req EXCEPT !.roots_authored_by = IF name = "roots_authored_by" THEN @ ELSE None,
                !.roots_authored_by_someone_followed_by =
                    IF name = "roots_authored_by_someone_followed_by" THEN @ ELSE None,
                !.has_replies_authored_by_someone_followed_by =
                    IF name = "has_replies_authored_by_someone_followed_by" THEN @ ELSE None,
                !.has_replies_authored_by = IF name = "has_replies_authored_by" THEN @ ELSE None]

SelectorNames ==
    {"roots_authored_by", "roots_authored_by_someone_followed_by",
     "has_replies_authored_by_someone_followed_by", "has_replies_authored_by"}

PresentSelectors(req) == { n \in SelectorNames : IsSome(req[n]) }

FitsInPage(req, keys) == req.next < 0 \/ Cardinality(keys) <= req.next

C2_SelectorsAreOred ==
    ReachedRows(request, response) =>
        LET got == KeysOf(response)
            eligible == Eligible(threads_table, request)
        IN /\ got \subseteq eligible
           /\ \A k \in eligible \ got :
                 /\ Cardinality(got) = request.next
                 /\ \A j \in got : SeqOfKey(threads_table, j) > SeqOfKey(threads_table, k)
           /\ (AnySelector(request) /\ FitsInPage(request, eligible)) =>
                 got = UNION { KeysOf(Answer(OnlySelector(request, n))) :
                                 n \in PresentSelectors(request) }

\* Two selectors with disjoint, non-empty matches, both returned.
C2_Witness ==
    /\ ReachedRows(request, response)
    /\ PresentSelectors(request) = {"roots_authored_by", "roots_authored_by_someone_followed_by"}
    /\ KeysOf(Answer(OnlySelector(request, "roots_authored_by"))) # {}
    /\ KeysOf(Answer(OnlySelector(request, "roots_authored_by_someone_followed_by"))) # {}
    /\ KeysOf(Answer(OnlySelector(request, "roots_authored_by")))
         \cap KeysOf(Answer(OnlySelector(request, "roots_authored_by_someone_followed_by"))) = {}
    /\ Cardinality(KeysOf(response)) = 2

(***************************************************************************)
(* C3.  Privacy partition.  As claimed: Public returns only rows that are  *)
(* not decrypted, Private only decrypted ones, the two never share a       *)
(* thread, and All returns the union of the two.                           *)
(***************************************************************************)
WithPrivacy(req, p) == KeysOf(Answer([req EXCEPT !.privacy = p]))

C3_PrivacyPartition ==
    ReachedRows(request, response) =>
        LET public == WithPrivacy(request, "Public")
            private == WithPrivacy(request, "Private")
            all == WithPrivacy(request, "All")
        IN /\ \A k \in public : \A r \in RowsOfKey(threads_table, k) : ~r.is_decrypted
           /\ \A k \in private : \A r \in RowsOfKey(threads_table, k) : r.is_decrypted
           /\ public \cap private = {}
           /\ all = public \cup private

(***************************************************************************)
(* C3 as amended.  Public returns only rows that are not decrypted,        *)
(* Private only decrypted ones, the two never share a thread, and what All *)
(* returns lies in their union; it is the whole union when the threads     *)
(* eligible under All fit in the page.                                     *)
(***************************************************************************)
C3_PrivacyPartitionWithinPage ==
    ReachedRows(request, response) =>
        LET public == WithPrivacy(request, "Public")
            private == WithPrivacy(request, "Private")
            all == WithPrivacy(request, "All")
        IN /\ \A k \in public : \A r \in RowsOfKey(threads_table, k) : ~r.is_decrypted
           /\ \A k \in private : \A r \in RowsOfKey(threads_table, k) : r.is_decrypted
           /\ public \cap private = {}
           /\ all \subseteq public \cup private
           /\ FitsInPage(request, Eligible(threads_table, [request EXCEPT !.privacy = "All"]))
                 => all = public \cup private

\* A selector is present, the store has a public and a private match, and
\* All returns both.
C3_Witness ==
    /\ ReachedRows(request, response)
    /\ AnySelector(request)
    /\ request.privacy = "All"
    /\ WithPrivacy(request, "Public") # {}
    /\ WithPrivacy(request, "Private") # {}
    /\ KeysOf(response) = WithPrivacy(request, "Public") \cup WithPrivacy(request, "Private")

(***************************************************************************)
(* C5.  Every successful `threads` result is strictly decreasing in        *)
(* sequence number and has at most pageSize entries, for every page size   *)
(* and every orderBy.                                                      *)
(***************************************************************************)
C5_OrderedAndBounded ==
    (request.op = "threads" /\ response.kind = "ok") =>
        /\ StrictlyDecreasing(threads_table, response.thread_keys)
        /\ Len(response.thread_keys) <= request.next

(***************************************************************************)
(* C7.  `threads` fails with NoResultsFound exactly when the bounded query *)
(* matches no row, returns a non-empty list when a row matches, and never  *)
(* returns threads with an error.                                          *)
(***************************************************************************)
WellFormedCursors(req) ==
    /\ ~(IsSome(req.before) /\ IsSome(req.after))
    /\ IsSome(req.before) => decode_cursor(Unwrap(req.before)).ok
    /\ IsSome(req.after) => decode_cursor(Unwrap(req.after)).ok

\* The request got as far as its main query, and the query ran.
RanMainQuery ==
    /\ request.op = "threads"
    /\ request.db = "ok"
    /\ WellFormedCursors(request)
    /\ ~(response.kind = "err" /\ response.err = LockError)

C7_NoResultsIffNoRows ==
    /\ (request.op = "threads" /\ response.kind # "ok") => response.thread_keys = << >>
    /\ RanMainQuery =>
          /\ (response.kind = "err" /\ response.err = NoResultsFound)
               <=> Eligible(threads_table, request) = {}
          /\ Eligible(threads_table, request) # {}
               => (response.kind = "ok" /\ Len(response.thread_keys) > 0)

(***************************************************************************)
(* C9.  Every failure inside a handler is returned to the caller as an     *)
(* error value, never as an abort of the handler, and a request during     *)
(* which nothing fails is not affected by an earlier failed one.           *)
(***************************************************************************)
C9_FailuresAreReturned ==
    request.op # "none" =>
        /\ response.kind \in {"ok", "err"}
        /\ request.db = "ok" => ~(response.kind = "err" /\ response.err = LockError)

(***************************************************************************)
(* C6.  Cursor round trip: decode_cursor(encode_cursor(x)) succeeds and    *)
(* returns x, negative x included, and no other value has the cursor of x. *)
(***************************************************************************)
C6_RoundTrip ==
    /\ codec.pc = "decoded" => (codec.out.ok /\ codec.out.v = codec.x)
    /\ codec.pc \in {"encoded", "decoded"} =>
          \A y \in CursorValues : encode_cursor(y) = codec.text => y = codec.x

C6_Witness == codec.pc = "decoded" /\ codec.x < 0 /\ codec.out.ok /\ codec.out.v = codec.x

(***************************************************************************)
(* C4.  Forward paging is stable under appends: the pages taken so far,    *)
(* one after the other, are strictly decreasing in sequence number, hold   *)
(* only threads that matched at the first request, leave out no such       *)
(* thread newer than one they hold, are full unless they reach the end,    *)
(* and once a request finds nothing they hold every such thread.           *)
(***************************************************************************)
RECURSIVE Flatten(_)
Flatten(pages) ==
    IF Len(pages) = 0 THEN << >> ELSE Flatten(SubSeq(pages, 1, Len(pages) - 1)) \o pages[Len(pages)]

Seen == Flatten(pager.pages)
SeenSet == { Seen[i] : i \in 1..Len(Seen) }

C4_ForwardPagingStable ==
    pager.pc \in {"paging", "end"} =>
        /\ StrictlyDecreasing(threads_table, Seen)
        /\ SeenSet \subseteq pager.snapshot
        /\ \A k \in pager.snapshot \ SeenSet :
              \A j \in SeenSet : SeqOfKey(threads_table, j) > SeqOfKey(threads_table, k)
        /\ \A i \in 1..Len(pager.pages) :
              \/ Len(pager.pages[i]) = pager.args.next
              \/ i = Len(pager.pages) /\ SeenSet = pager.snapshot /\ Len(pager.pages[i]) > 0
        /\ pager.pc = "end" => SeenSet = pager.snapshot

\* Paging reached the end over at least two pages, while the log grew by a
\* thread that matches the request but came too late to be listed.
C4_Witness ==
    /\ pager.pc = "end"
    /\ Len(pager.pages) >= 2
    /\ nmsgs > pager.fetched_at[1]
    /\ Eligible(threads_table, pager.args) # pager.snapshot

(***************************************************************************)
(* C10.  Backward paging returns the previous page: on an unchanged store, *)
(* if page Q came from page P by after = P.endCursor, the request with     *)
(* before = Q.startCursor returns exactly P, wherever P lies in the list,  *)
(* and only threads newer than the cursor.                                 *)
(***************************************************************************)
C10_BackReturnsPreviousPage ==
    (pager.pc = "back" /\ pager.back_stable) =>
        /\ pager.back = pager.pages[Len(pager.pages) - 1]
        /\ \A i \in 1..Len(pager.back) :
              SeqOfKey(threads_table, pager.back[i]) > decode_cursor(pager.start_cursor).v

(***************************************************************************)
(* C8.  The connection is held by at most one request at a time, and a     *)
(* request that waits for it eventually holds it.                          *)
(***************************************************************************)
C8_ExclusiveAndEventuallyAcquired ==
    /\ [](Cardinality(InCritical) <= 1)
    /\ \A r \in Requests : (calls[r].pc = "lock") ~> (calls[r].pc \in Critical)

\* The parts of C8 that hold: one request at a time, the holder is the one
\* running queries, and the mutex is free when nobody is in a handler body.
C8_MutualExclusion ==
    /\ Cardinality(InCritical) <= 1
    /\ \A r \in Requests : calls[r].pc \in Critical <=> holder = r

====
